---- MODULE Spec2Model ----
(***************************************************************************)
(* Model of agentverse/llms/openai.py: the OpenAIChat client.              *)
(*                                                                         *)
(* A call of generate_response (blocking) or agenerate_response            *)
(* (non-blocking) is driven by the tenacity retry decorator: every attempt *)
(* re-runs the whole function body (construct_messages, log_prompt, the    *)
(* remote chat-completion request and the interpretation of its reply).    *)
(* The remote service is the environment: for each dispatch it either      *)
(* raises or returns a response.                                           *)
(*                                                                         *)
(* Strings the code inspects character by character (function names) are   *)
(* sequences of one-character strings; argument strings handed to          *)
(* ast.literal_eval are sequences of lexical tokens.                       *)
(***************************************************************************)
EXTENDS Integers, Sequences, FiniteSets, TLC

VARIABLES
    mode,            \* per call: "sync" (generate_response) or "async" (agenerate_response)
    prepend_prompt,  \* per call: argument prepend_prompt
    history,         \* per call: argument history
    append_prompt,   \* per call: argument append_prompt
    functions,       \* per call: argument functions
    pc,              \* per call: "idle", "awaiting", "sleeping", "returned", "raised"
    attempt_number,  \* per call: tenacity's retry_state.attempt_number
    messages,        \* per call: local variable messages of the current attempt
    prompt_log,      \* per call: the message sequences emitted by logger.log_prompt
    dispatched,      \* per call: number of ChatCompletion requests sent
    request,         \* per call: the last request sent to the remote service
    response,        \* per call: the remote outcome of the last completed attempt
    outcome,         \* per call: exception of the last failed attempt (retry_state.outcome)
    warned,          \* per call: the last completed attempt logged a warning
    result,          \* per call: the LLMResult returned to the caller
    raised,          \* per call: the exception raised to the caller
    slept,           \* per call: number of backoff waits taken
    wait,            \* per call: duration of the last backoff wait
    yields           \* per call: number of times the call yielded control at an await

vars == <<mode, prepend_prompt, history, append_prompt, functions, pc,
          attempt_number, messages, prompt_log, dispatched, request,
          response, outcome, warned, result, raised, slept, wait, yields>>

inputs == <<mode, prepend_prompt, history, append_prompt, functions>>

Calls == DOMAIN pc

----------------------------------------------------------------------------
(* Bounds of the model *)

MaxHist == 2

----------------------------------------------------------------------------
(* Program constants *)

MaxAttempts == 20
WaitMultiplier == 1
WaitMin == 4
WaitMax == 10

----------------------------------------------------------------------------
(* Character strings *)

FUNCTION_DOT == <<"f","u","n","c","t","i","o","n",".">>
FUNCTIONS_DOT == <<"f","u","n","c","t","i","o","n","s",".">>
LOOKUP == <<"l","o","o","k","u","p">>
SEARCH == <<"s","e","a","r","c","h">>
UNLISTED == <<"o","t","h","e","r">>
EmptyStr == <<>>

\* str.startswith(prefix)
StartsWith(s, prefix) ==
    /\ Len(s) >= Len(prefix)
    /\ SubSeq(s, 1, Len(prefix)) = prefix

\* str.replace(old, ""): every non-overlapping occurrence of old, scanning
\* from the left, is removed.
RECURSIVE ReplaceWithEmpty(_, _)
ReplaceWithEmpty(s, old) ==
    IF Len(s) < Len(old) THEN s
    ELSE IF StartsWith(s, old)
         THEN ReplaceWithEmpty(SubSeq(s, Len(old) + 1, Len(s)), old)
         ELSE <<Head(s)>> \o ReplaceWithEmpty(Tail(s), old)

----------------------------------------------------------------------------
(* Message assembly *)

SystemMessage(text) == [role |-> "system", content |-> text]
UserMessage(text) == [role |-> "user", content |-> text]

\* construct_messages with the system message appended after the history.
construct_messages_history_first(prepend, hist, append) ==
    LET m1 == IF Len(hist) > 0 THEN hist ELSE <<>>
        m2 == IF prepend # "" THEN Append(m1, SystemMessage(prepend)) ELSE m1
        m3 == IF append # "" THEN Append(m2, UserMessage(append)) ELSE m2
    IN  m3

\* OpenAIChat.construct_messages
construct_messages(prepend, hist, append) ==
    LET m0 == <<>>
        m1 == IF prepend # "" THEN Append(m0, SystemMessage(prepend)) ELSE m0
        m2 == IF Len(hist) > 0 THEN m1 \o hist ELSE m1
        m3 == IF append # "" THEN Append(m2, UserMessage(append)) ELSE m2
    IN  m3

----------------------------------------------------------------------------
(* Function-call arguments: ast.literal_eval and the repair fallback *)

NoneValue == [type |-> "NoneType", items |-> {}]
DictValue(items) == [type |-> "dict", items |-> items]

StringLiterals == {"'q'", "'x'"}

\* The str a quoted string literal evaluates to.
StringValue(tok) == IF tok = "'q'" THEN "q" ELSE "x"

ParseFailure == [ok |-> FALSE, value |-> NoneValue]
ParseSuccess(v) == [ok |-> TRUE, value |-> v]

\* A later key replaces an earlier equal key, as in a Python dict display.
DictPut(items, k, v) ==
    {kv \in items : kv[1] # StringValue(k)} \cup {<<StringValue(k), StringValue(v)>>}

\* The key/value list between the braces of a dict display; a trailing comma
\* after an item is accepted.
RECURSIVE ParseItems(_, _)
ParseItems(t, items) ==
    IF t = <<>> THEN ParseSuccess(DictValue(items))
    ELSE IF /\ Len(t) >= 3
            /\ t[1] \in StringLiterals
            /\ t[2] = ":"
            /\ t[3] \in StringLiterals
         THEN IF Len(t) = 3
              THEN ParseSuccess(DictValue(DictPut(items, t[1], t[3])))
              ELSE IF t[4] = ","
                   THEN ParseItems(SubSeq(t, 5, Len(t)), DictPut(items, t[1], t[3]))
                   ELSE ParseFailure
         ELSE ParseFailure

\* ast.literal_eval on a token sequence: a dict display of string literals.
literal_eval(s) ==
    IF Len(s) >= 2 /\ s[1] = "{" /\ s[Len(s)] = "}"
    THEN ParseItems(SubSeq(s, 2, Len(s) - 1), {})
    ELSE ParseFailure

Count(s, tok) == Cardinality({i \in 1..Len(s) : s[i] = tok})

\* JsonRepair(s).repair(): best effort; here it closes an unclosed brace.
JsonRepair(s) ==
    IF Count(s, "{") = Count(s, "}") + 1 THEN Append(s, "}") ELSE s

----------------------------------------------------------------------------
(* The remote service and the result record *)

NoUsage == [prompt_tokens |-> 0, completion_tokens |-> 0, total_tokens |-> 0]
Usages == {[prompt_tokens |-> 5, completion_tokens |-> 3, total_tokens |-> 8],
           [prompt_tokens |-> 2, completion_tokens |-> 1, total_tokens |-> 3]}

ReplyNames == {LOOKUP,
               FUNCTION_DOT \o LOOKUP,
               FUNCTIONS_DOT \o LOOKUP,
               FUNCTION_DOT \o FUNCTION_DOT \o LOOKUP,
               UNLISTED}

ValidArgs == <<"{", "'q'", ":", "'x'", "}">>
UnclosedArgs == <<"{", "'q'", ":", "'x'">>
BrokenArgs == <<"{", "'q'", ":", "}">>
ReplyArguments == {ValidArgs, UnclosedArgs, BrokenArgs}

ReplyContents == {"", "hello"}

\* Exceptions the remote request can raise.
RemoteErrors == {"OpenAIError", "JSONDecodeError", "KeyboardInterrupt"}

NoReply ==
    [raises |-> "none", content |-> "", function_call |-> FALSE,
     name |-> EmptyStr, arguments |-> <<>>, usage |-> NoUsage]

ErrorReply(kind) == [NoReply EXCEPT !.raises = kind]

TextReply(text, usage) == [NoReply EXCEPT !.content = text, !.usage = usage]

FunctionCallReply(text, name, arguments, usage) ==
    [NoReply EXCEPT !.content = text, !.function_call = TRUE, !.name = name,
                    !.arguments = arguments, !.usage = usage]

\* Everything one dispatch can come back with.
Replies ==
    {ErrorReply(k) : k \in RemoteErrors}
    \cup {TextReply(t, u) : t \in ReplyContents, u \in Usages}
    \cup {FunctionCallReply(t, n, a, u) :
            t \in ReplyContents, n \in ReplyNames, a \in ReplyArguments, u \in Usages}

\* LLMResult with its field defaults.
LLMResult ==
    [content |-> "", function_name |-> EmptyStr, function_arguments |-> NoneValue,
     send_tokens |-> 0, recv_tokens |-> 0, total_tokens |-> 0]

\* Token counters with sent and received exchanged.
WithUsageSwapped(res, usage) ==
    [res EXCEPT !.send_tokens = usage.completion_tokens,
                !.recv_tokens = usage.prompt_tokens,
                !.total_tokens = usage.total_tokens]

\* send_tokens, recv_tokens, total_tokens taken from response["usage"]
WithUsage(res, usage) ==
    [res EXCEPT !.send_tokens = usage.prompt_tokens,
                !.recv_tokens = usage.completion_tokens,
                !.total_tokens = usage.total_tokens]

\* What one run of the function body ends with.
Returns(res) == [ok |-> TRUE, result |-> res, error |-> "none", warned |-> FALSE]
Raises(kind, w) == [ok |-> FALSE, result |-> LLMResult, error |-> kind, warned |-> w]

----------------------------------------------------------------------------
(* The function bodies, from the remote request's completion to the return *)

\* agenerate_response: prefix normalisation of the returned function name
NormalizeName(name) ==
    IF StartsWith(name, FUNCTION_DOT) THEN ReplaceWithEmpty(name, FUNCTION_DOT)
    ELSE IF StartsWith(name, FUNCTIONS_DOT) THEN ReplaceWithEmpty(name, FUNCTIONS_DOT)
    ELSE name

\* agenerate_response: the loop over functions setting valid_function
ValidFunction(fns, name) == \E i \in 1..Len(fns) : fns[i].name = name

\* agenerate_response: literal_eval, then literal_eval of the repaired string
ParseArguments(arguments) ==
    LET first == literal_eval(arguments)
    IN  IF first.ok THEN first ELSE literal_eval(JsonRepair(arguments))

\* A reply without function call, or any reply when no functions were sent.
TextResult(reply) ==
    WithUsage([LLMResult EXCEPT !.content = reply.content], reply.usage)

\* generate_response, after openai.ChatCompletion.create
generate_response(fns, reply) ==
    IF reply.raises # "none" THEN Raises(reply.raises, FALSE)
    ELSE IF fns # <<>> /\ reply.function_call
    THEN LET parsed == literal_eval(reply.arguments)
         IN  IF parsed.ok
             THEN Returns(WithUsage([LLMResult EXCEPT
                                        !.content = reply.content,
                                        !.function_name = reply.name,
                                        !.function_arguments = parsed.value],
                                    reply.usage))
             ELSE Raises("SyntaxError", FALSE)
    ELSE Returns(TextResult(reply))

\* agenerate_response, after await openai.ChatCompletion.acreate
agenerate_response(fns, reply) ==
    IF reply.raises # "none" THEN Raises(reply.raises, FALSE)
    ELSE IF fns # <<>> /\ reply.function_call
    THEN LET function_name == NormalizeName(reply.name)
             parsed == ParseArguments(reply.arguments)
         IN  IF ~ValidFunction(fns, function_name)
             THEN Raises("ValueError: function name", TRUE)
             ELSE IF ~parsed.ok
             THEN Raises("ValueError: arguments", TRUE)
             ELSE Returns(WithUsage([LLMResult EXCEPT
                                        !.function_name = function_name,
                                        !.function_arguments = parsed.value],
                                    reply.usage))
    ELSE Returns(TextResult(reply))

----------------------------------------------------------------------------
(* The retry decorator *)

NoError == [kind |-> "none", attempt |-> 0]
Error(kind, n) == [kind |-> kind, attempt |-> n]

\* Exceptions deriving from Exception; KeyboardInterrupt derives from
\* BaseException only.
ExceptionKinds ==
    {"OpenAIError", "JSONDecodeError", "SyntaxError",
     "ValueError: function name", "ValueError: arguments"}

\* A retry condition that also retries on BaseException.
ShouldRetryBaseException(err) == err.kind \in ExceptionKinds \cup {"KeyboardInterrupt"}

\* A retry condition that retries remote-service errors only.
ShouldRetryOpenAIErrorOnly(err) == err.kind = "OpenAIError"

\* retry: the decorator's default, retry_if_exception_type(Exception)
ShouldRetry(err) == err.kind \in ExceptionKinds

\* A stop condition that is one attempt late.
StopAfterAttemptLate(n) == n > MaxAttempts

\* stop=stop_after_attempt(20)
StopAfterAttempt(n) == n >= MaxAttempts

\* reraise=False: the last attempt's exception wrapped in a RetryError.
RaiseOnStopWrapped(err) == [kind |-> "RetryError", attempt |-> err.attempt]

\* reraise=True: the last attempt's exception itself is raised
RaiseOnStop(err) == err

Min(a, b) == IF a < b THEN a ELSE b
Max(a, b) == IF a > b THEN a ELSE b

\* An exponential wait whose exponent is the attempt number itself.
WaitExponentialFromTwo(n) ==
    Max(Max(0, WaitMin), Min(WaitMultiplier * 2 ^ n, WaitMax))

\* wait=wait_exponential(multiplier=1, min=4, max=10)
WaitExponential(n) ==
    Max(Max(0, WaitMin), Min(WaitMultiplier * 2 ^ (n - 1), WaitMax))

\* The body the call of c runs on its reply.
Body(c, reply) ==
    IF mode[c] = "sync" THEN generate_response(functions[c], reply)
    ELSE agenerate_response(functions[c], reply)

RECURSIVE SumAttempts(_)
SumAttempts(S) ==
    IF S = {} THEN 0
    ELSE LET c == CHOOSE x \in S : TRUE
         IN  attempt_number[c] + SumAttempts(S \ {c})

\* A decorator whose attempt counter is shared by all calls.
AfterAttemptSharedCounter(c, out) ==
    IF out.ok THEN "returned"
    ELSE IF ~ShouldRetry(Error(out.error, attempt_number[c])) THEN "raised"
    ELSE IF StopAfterAttempt(SumAttempts(Calls)) THEN "raised"
    ELSE "sleeping"

\* A decorator that goes on retrying after the body returned a Result.
AfterAttemptRetryResult(c, out) ==
    IF StopAfterAttempt(attempt_number[c]) THEN (IF out.ok THEN "returned" ELSE "raised")
    ELSE IF ~out.ok /\ ~ShouldRetry(Error(out.error, attempt_number[c])) THEN "raised"
    ELSE "sleeping"

\* Where the decorator takes the call of c after the body ended with out.
AfterAttempt(c, out) ==
    IF out.ok THEN "returned"
    ELSE IF ~ShouldRetry(Error(out.error, attempt_number[c])) THEN "raised"
    ELSE IF StopAfterAttempt(attempt_number[c]) THEN "raised"
    ELSE "sleeping"

----------------------------------------------------------------------------
(* Actions *)

\* A log emission that only happens on the first attempt of a call.
log_prompt_first_only(log, msgs) == IF log = <<>> THEN Append(log, msgs) ELSE log

\* logger.log_prompt(messages): one emission to the log sink
log_prompt(log, msgs) == Append(log, msgs)

\* OpenAIChatArgs with its field defaults: self.args.dict()
ArgsDict ==
    [model |-> "gpt-3.5-turbo", max_tokens |-> 2048, temperature |-> 1, top_p |-> 1,
     n |-> 1, stop |-> "None", presence_penalty |-> 0, frequency_penalty |-> 0]

NoRequest ==
    [messages |-> <<>>, has_functions |-> FALSE, functions |-> <<>>,
     args |-> [model |-> "none"]]

\* A request that passes the functions keyword whatever the list holds.
ChatCompletionRequestAlwaysFunctions(msgs, fns) ==
    [messages |-> msgs, has_functions |-> TRUE, functions |-> fns, args |-> ArgsDict]

\* The keyword arguments of ChatCompletion.create / acreate.
ChatCompletionRequest(msgs, fns) ==
    [messages |-> msgs,
     has_functions |-> fns # <<>>,
     functions |-> IF fns # <<>> THEN fns ELSE <<>>,
     args |-> ArgsDict]

\* A construct_messages that starts from the caller's list (messages = history)
\* and so leaves the assembled messages in it.
HistoryAfterAliased(prepend, hist, append) ==
    construct_messages(prepend, hist, append)

\* The caller's history list after construct_messages: messages is a fresh
\* list and "messages += history" extends that list, not history.
HistoryAfter(prepend, hist, append) == hist

\* A backoff wait that blocks instead of awaiting.
AwaitsSleepNever(m) == FALSE

\* The backoff wait of the async variant is an awaited sleep; the blocking
\* variant sleeps without yielding.
AwaitsSleep(m) == m = "async"

\* "await openai.ChatCompletion.acreate" yields control; "create" blocks.
AwaitsRequest(m) == m = "async"

\* One attempt of every call in S starts: the body runs construct_messages
\* and log_prompt and sends the request.
StartAttempt(S) ==
    LET msgs(c) == construct_messages(prepend_prompt[c], history[c], append_prompt[c])
    IN  /\ S # {}
        /\ pc' = [c \in Calls |-> IF c \in S THEN "awaiting" ELSE pc[c]]
        /\ attempt_number' = [c \in Calls |->
               IF c \in S THEN attempt_number[c] + 1 ELSE attempt_number[c]]
        /\ messages' = [c \in Calls |-> IF c \in S THEN msgs(c) ELSE messages[c]]
        /\ prompt_log' = [c \in Calls |->
               IF c \in S THEN log_prompt(prompt_log[c], msgs(c)) ELSE prompt_log[c]]
        /\ dispatched' = [c \in Calls |->
               IF c \in S THEN dispatched[c] + 1 ELSE dispatched[c]]
        /\ request' = [c \in Calls |->
               IF c \in S THEN ChatCompletionRequest(msgs(c), functions[c])
               ELSE request[c]]
        /\ response' = [c \in Calls |-> IF c \in S THEN NoReply ELSE response[c]]
        /\ warned' = [c \in Calls |-> IF c \in S THEN FALSE ELSE warned[c]]
        /\ history' = [c \in Calls |->
               IF c \in S
               THEN HistoryAfter(prepend_prompt[c], history[c], append_prompt[c])
               ELSE history[c]]
        /\ yields' = [c \in Calls |->
               IF c \in S /\ AwaitsRequest(mode[c]) THEN yields[c] + 1 ELSE yields[c]]
        /\ UNCHANGED <<mode, prepend_prompt, append_prompt, functions,
                       outcome, result, raised, slept, wait>>

\* The remote request of every call in S completes with reply; the body
\* interprets it and the decorator returns, raises or starts the backoff wait.
Complete(S, reply) ==
    LET out(c) == Body(c, reply)
        next(c) == AfterAttempt(c, out(c))
        err(c) == Error(out(c).error, attempt_number[c])
    IN  /\ S # {}
        /\ \A c \in S : pc[c] = "awaiting"
        /\ pc' = [c \in Calls |-> IF c \in S THEN next(c) ELSE pc[c]]
        /\ response' = [c \in Calls |-> IF c \in S THEN reply ELSE response[c]]
        /\ warned' = [c \in Calls |-> IF c \in S THEN out(c).warned ELSE warned[c]]
        /\ outcome' = [c \in Calls |->
               IF c \in S THEN (IF out(c).ok THEN NoError ELSE err(c)) ELSE outcome[c]]
        /\ result' = [c \in Calls |->
               IF c \in S /\ next(c) = "returned" THEN out(c).result ELSE result[c]]
        /\ raised' = [c \in Calls |->
               IF c \in S /\ next(c) = "raised"
               THEN (IF ShouldRetry(err(c)) THEN RaiseOnStop(err(c)) ELSE err(c))
               ELSE raised[c]]
        /\ slept' = [c \in Calls |->
               IF c \in S /\ next(c) = "sleeping" THEN slept[c] + 1 ELSE slept[c]]
        /\ wait' = [c \in Calls |->
               IF c \in S /\ next(c) = "sleeping"
               THEN WaitExponential(attempt_number[c]) ELSE wait[c]]
        /\ yields' = [c \in Calls |->
               IF c \in S /\ next(c) = "sleeping" /\ AwaitsSleep(mode[c])
               THEN yields[c] + 1 ELSE yields[c]]
        /\ UNCHANGED <<inputs, attempt_number, messages, prompt_log,
                       dispatched, request>>

\* The caller invokes generate_response or agenerate_response: first attempt.
Call(c) == pc[c] = "idle" /\ StartAttempt({c})

\* The backoff wait of c is over: next attempt.
Retry(c) == pc[c] = "sleeping" /\ StartAttempt({c})

\* The remote service answers the outstanding request of c.
Reply(c, reply) == Complete({c}, reply)

----------------------------------------------------------------------------
(* Specification of one call *)

HistoryMessages ==
    {[role |-> "system", content |-> "old rules"],
     [role |-> "user", content |-> "hello?"]}

Histories == UNION {[1..n -> HistoryMessages] : n \in 0..MaxHist}

PrependPrompts == {"", "You are a bot"}
AppendPrompts == {"", "hi"}

FunctionLists ==
    {<<>>, <<[name |-> SEARCH], [name |-> LOOKUP]>>}

Modes == {"sync", "async"}

\* The state of every call in ids before it is invoked.
Fresh(ids) ==
    /\ pc = [c \in ids |-> "idle"]
    /\ attempt_number = [c \in ids |-> 0]
    /\ messages = [c \in ids |-> <<>>]
    /\ prompt_log = [c \in ids |-> <<>>]
    /\ dispatched = [c \in ids |-> 0]
    /\ request = [c \in ids |-> NoRequest]
    /\ response = [c \in ids |-> NoReply]
    /\ outcome = [c \in ids |-> NoError]
    /\ warned = [c \in ids |-> FALSE]
    /\ result = [c \in ids |-> LLMResult]
    /\ raised = [c \in ids |-> NoError]
    /\ slept = [c \in ids |-> 0]
    /\ wait = [c \in ids |-> 0]
    /\ yields = [c \in ids |-> 0]

Init ==
    /\ mode \in [{1} -> Modes]
    /\ prepend_prompt \in [{1} -> PrependPrompts]
    /\ history \in [{1} -> Histories]
    /\ append_prompt \in [{1} -> AppendPrompts]
    /\ functions \in [{1} -> FunctionLists]
    /\ Fresh({1})

Next ==
    \/ \E c \in Calls : Call(c)
    \/ \E c \in Calls : Retry(c)
    \/ \E c \in Calls : \E reply \in Replies : Reply(c, reply)

Spec == Init /\ [][Next]_vars

----------------------------------------------------------------------------
(* Specification of the two variants side by side: call 1 is                *)
(* generate_response, call 2 is agenerate_response, both with the same      *)
(* arguments; the k-th dispatch of each gets the same k-th remote reply.    *)
(* The prompts do not enter the interpretation of a reply, so the pair is   *)
(* started on one message sequence and on every functions list.             *)

InitPair ==
    /\ mode = (1 :> "sync") @@ (2 :> "async")
    /\ \E p \in PrependPrompts \ {""} : prepend_prompt = [c \in {1, 2} |-> p]
    /\ \E h \in {<<>>} : history = [c \in {1, 2} |-> h]
    /\ \E a \in AppendPrompts \ {""} : append_prompt = [c \in {1, 2} |-> a]
    /\ \E f \in FunctionLists : functions = [c \in {1, 2} |-> f]
    /\ Fresh({1, 2})

\* Both variants are invoked.
PairCall ==
    /\ \A c \in Calls : pc[c] = "idle"
    /\ StartAttempt(Calls)

\* Every variant that is still retrying starts its next attempt.
PairRetry == StartAttempt({c \in Calls : pc[c] = "sleeping"})

\* Every outstanding request completes with the same remote reply.
PairReply(reply) == Complete({c \in Calls : pc[c] = "awaiting"}, reply)

NextPair ==
    \/ PairCall
    \/ PairRetry
    \/ \E reply \in Replies : PairReply(reply)

SpecPair == InitPair /\ [][NextPair]_vars

----------------------------------------------------------------------------
(* Specification of two concurrent calls: each call has its own arguments   *)
(* and its own remote replies, and the calls' attempts interleave freely.   *)

ConcReplies ==
    {ErrorReply("OpenAIError"),
     ErrorReply("KeyboardInterrupt"),
     TextReply("hello", [prompt_tokens |-> 5, completion_tokens |-> 3, total_tokens |-> 8]),
     FunctionCallReply("", UNLISTED, ValidArgs,
                       [prompt_tokens |-> 2, completion_tokens |-> 1, total_tokens |-> 3]),
     FunctionCallReply("", FUNCTIONS_DOT \o LOOKUP, ValidArgs,
                       [prompt_tokens |-> 5, completion_tokens |-> 3, total_tokens |-> 8])}

InitConc ==
    /\ mode \in [{1, 2} -> Modes]
    /\ prepend_prompt = (1 :> "You are a bot") @@ (2 :> "")
    /\ history = (1 :> <<>>) @@ (2 :> <<[role |-> "user", content |-> "hello?"]>>)
    /\ append_prompt = (1 :> "hi") @@ (2 :> "hi")
    /\ functions \in [{1, 2} -> FunctionLists]
    /\ Fresh({1, 2})

NextConc ==
    \/ \E c \in Calls : Call(c)
    \/ \E c \in Calls : Retry(c)
    \/ \E c \in Calls : \E reply \in ConcReplies : Reply(c, reply)

SpecConc == InitConc /\ [][NextConc]_vars

----------------------------------------------------------------------------
(* Properties *)

Finished(c) == pc[c] \in {"returned", "raised"}

FunctionCallAccepted(c) ==
    /\ pc[c] = "returned"
    /\ functions[c] # <<>>
    /\ response[c].function_call

\* C1: a call never dispatches more than 20 times; a call whose attempts all
\* failed with retryable errors has dispatched exactly 20 times when it
\* raises, and after the 20th failure it raises instead of waiting for a 21st.
RetryBound ==
    \A c \in Calls :
        /\ dispatched[c] <= MaxAttempts
        /\ attempt_number[c] = dispatched[c]
        /\ pc[c] = "sleeping" => dispatched[c] < MaxAttempts
        /\ (pc[c] = "raised" /\ raised[c].kind # "KeyboardInterrupt")
              => dispatched[c] = MaxAttempts

RetryBoundWitness ==
    \E c \in Calls :
        /\ pc[c] = "raised"
        /\ raised[c].kind \in ExceptionKinds
        /\ dispatched[c] = MaxAttempts
        /\ slept[c] = MaxAttempts - 1

\* C2: run side by side on the same arguments and the same remote replies,
\* generate_response and agenerate_response make the same number of dispatch
\* attempts and end with the same Result or the same error.
VariantsAgree ==
    (Calls = {1, 2} /\ Finished(1) /\ Finished(2))
        => /\ dispatched[1] = dispatched[2]
           /\ pc[1] = pc[2]
           /\ result[1] = result[2]
           /\ raised[1] = raised[2]

\* C3: a reply whose normalized function name is not among the supplied
\* functions makes the attempt fail, and no returned Result carries a
\* function_name that is absent from the supplied functions.
FunctionNameValidated ==
    \A c \in Calls :
        /\ (pc[c] = "returned" /\ result[c].function_name # EmptyStr)
              => ValidFunction(functions[c], result[c].function_name)
        /\ (/\ functions[c] # <<>>
            /\ response[c].function_call
            /\ ~ValidFunction(functions[c], NormalizeName(response[c].name)))
              => pc[c] # "returned"

\* C4: a KeyboardInterrupt raised by the remote call of attempt k ends the
\* call at once: it is raised to the caller as it is, with k dispatches and
\* k - 1 backoff waits made, and nothing more.
InterruptionPropagates ==
    \A c \in Calls :
        outcome[c].kind = "KeyboardInterrupt"
            => /\ pc[c] = "raised"
               /\ raised[c] = outcome[c]
               /\ raised[c] = Error(response[c].raises, attempt_number[c])
               /\ dispatched[c] = outcome[c].attempt
               /\ slept[c] = outcome[c].attempt - 1

InterruptionWitness ==
    \E c \in Calls :
        /\ pc[c] = "raised"
        /\ raised[c].kind = "KeyboardInterrupt"
        /\ raised[c].attempt > 1
        /\ raised[c].attempt < MaxAttempts

\* C5: when the attempts are exhausted the error raised to the caller is the
\* error of the 20th attempt itself, and a call whose final attempt failed
\* returns no Result.
ExhaustionOutcome ==
    \A c \in Calls :
        /\ (pc[c] = "raised" /\ raised[c].kind # "KeyboardInterrupt")
              => /\ raised[c] = outcome[c]
                 /\ raised[c].attempt = MaxAttempts
                 /\ raised[c].kind \in ExceptionKinds
                 /\ response[c].raises # "none" => raised[c].kind = response[c].raises
        /\ pc[c] = "raised" => result[c] = LLMResult
        /\ pc[c] = "returned" => (outcome[c] = NoError /\ response[c].raises = "none")

ExhaustionWitness ==
    \E c \in Calls :
        /\ pc[c] = "raised"
        /\ raised[c] = Error("JSONDecodeError", MaxAttempts)
        /\ response[c].raises = "JSONDecodeError"

\* C6: for a function-call reply with a valid name the arguments are parsed
\* as a literal; on success the Result carries the parsed structure; on
\* failure the string is repaired once and re-parsed, and the Result carries
\* that structure; if the re-parse fails too the attempt fails.
ArgumentRecovery ==
    \A c \in Calls :
        (/\ pc[c] \in {"sleeping", "returned", "raised"}
         /\ functions[c] # <<>>
         /\ response[c].function_call
         /\ ValidFunction(functions[c], NormalizeName(response[c].name)))
            => LET first == literal_eval(response[c].arguments)
                   second == literal_eval(JsonRepair(response[c].arguments))
               IN  /\ first.ok
                        => /\ pc[c] = "returned"
                           /\ result[c].function_arguments = first.value
                   /\ (~first.ok /\ second.ok)
                        => /\ pc[c] = "returned"
                           /\ result[c].function_arguments = second.value
                   /\ (~first.ok /\ ~second.ok)
                        => /\ pc[c] # "returned"
                           /\ pc[c] = "raised" => dispatched[c] = MaxAttempts

\* C7: construct_messages returns the system message iff prepend_prompt is
\* non-empty, then the history in its order, then the user message iff
\* append_prompt is non-empty.
MessageAssembly ==
    \A c \in Calls :
        pc[c] # "idle"
            => LET m == messages[c]
                   h == history[c]
                   off == IF prepend_prompt[c] # "" THEN 1 ELSE 0
                   tail == IF append_prompt[c] # "" THEN 1 ELSE 0
               IN  /\ Len(m) = off + Len(h) + tail
                   /\ prepend_prompt[c] # ""
                        => m[1] = [role |-> "system", content |-> prepend_prompt[c]]
                   /\ \A i \in 1..Len(h) : m[off + i] = h[i]
                   /\ append_prompt[c] # ""
                        => m[Len(m)] = [role |-> "user", content |-> append_prompt[c]]
                   /\ (prepend_prompt[c] = "" /\ append_prompt[c] = "") => m = h

MessageAssemblyWitness ==
    \E c \in Calls :
        /\ pc[c] # "idle"
        /\ prepend_prompt[c] # ""
        /\ append_prompt[c] # ""
        /\ Len(history[c]) = 2
        /\ history[c][1].role = "user"
        /\ history[c][2].role = "system"
        /\ Len(messages[c]) = 4

\* The name with one leading "function." or "functions." removed.
StripLeadingPrefix(name) ==
    IF StartsWith(name, FUNCTION_DOT)
    THEN SubSeq(name, Len(FUNCTION_DOT) + 1, Len(name))
    ELSE IF StartsWith(name, FUNCTIONS_DOT)
    THEN SubSeq(name, Len(FUNCTIONS_DOT) + 1, Len(name))
    ELSE name

\* C8: the function_name of every accepted function-call reply is the
\* reply's name with one leading "function." or "functions." stripped and
\* nothing else changed.
NameNormalized ==
    \A c \in Calls :
        FunctionCallAccepted(c)
            => result[c].function_name = StripLeadingPrefix(response[c].name)

\* C9: every returned Result is either a text result (no function name, no
\* arguments) or a function-call result (name and arguments, no text), never
\* both.
ResultShape ==
    \A c \in Calls :
        pc[c] = "returned"
            => \/ /\ result[c].function_name = EmptyStr
                  /\ result[c].function_arguments = NoneValue
               \/ /\ result[c].function_name # EmptyStr
                  /\ result[c].function_arguments # NoneValue
                  /\ result[c].content = ""

\* C10 as stated: a finished call has emitted its messages to the log sink
\* exactly once.
LogOncePerCall ==
    \A c \in Calls : Finished(c) => Len(prompt_log[c]) = 1

\* C10: a call emits its outbound messages to the log sink once per dispatch
\* attempt, right before the dispatch: n attempts make n emissions of the
\* dispatched messages.
LogOncePerAttempt ==
    \A c \in Calls :
        /\ Len(prompt_log[c]) = dispatched[c]
        /\ \A i \in 1..Len(prompt_log[c]) : prompt_log[c][i] = request[c].messages

LogOncePerAttemptWitness ==
    \E c \in Calls :
        /\ pc[c] = "returned"
        /\ dispatched[c] = 3
        /\ Len(prompt_log[c]) = 3

\* The attempt that just completed failed with a retryable error.
FailedRetryable(c) ==
    /\ pc[c] \in {"sleeping", "raised"}
    /\ outcome[c].kind \in ExceptionKinds
    /\ outcome[c].attempt = attempt_number[c]

\* C11: every attempt that fails and is retried logs a warning before the
\* next dispatch.
WarningBeforeRetry ==
    \A c \in Calls : pc[c] = "sleeping" => warned[c]

\* C12: a retryable error of an attempt before the 20th is never raised to
\* the caller: the call goes on to its backoff wait; the caller sees an error
\* only from the 20th attempt or from an interruption.
NoEarlySurfacing ==
    \A c \in Calls :
        /\ (FailedRetryable(c) /\ attempt_number[c] < MaxAttempts)
              => (pc[c] = "sleeping" /\ raised[c] = NoError)
        /\ pc[c] = "raised"
              => \/ raised[c].kind = "KeyboardInterrupt"
                 \/ (raised[c].attempt = MaxAttempts /\ attempt_number[c] = MaxAttempts)
        /\ pc[c] # "raised" => raised[c] = NoError

NoEarlySurfacingWitness ==
    \E c \in Calls :
        /\ pc[c] = "sleeping"
        /\ outcome[c] = Error("JSONDecodeError", 2)
        /\ raised[c] = NoError

\* C13 as stated: a non-blocking call yields control only at the await of
\* the remote request, once per dispatch.
YieldsOnlyAtRequest ==
    \A c \in Calls : mode[c] = "async" => yields[c] = dispatched[c]

\* C13: a non-blocking call yields control at the await of the remote request
\* and at the awaited backoff wait between a failed attempt and the next
\* dispatch, and nowhere else: once per dispatch and once per wait.
YieldsAtRequestAndWait ==
    \A c \in Calls :
        /\ mode[c] = "async" => yields[c] = dispatched[c] + slept[c]
        /\ mode[c] = "sync" => yields[c] = 0

YieldsWitness ==
    \E c \in Calls :
        /\ mode[c] = "async"
        /\ pc[c] = "awaiting"
        /\ dispatched[c] = 3
        /\ slept[c] = 2
        /\ yields[c] = 5

\* Everything that belongs to the call of c.
CallState(c) ==
    <<mode[c], prepend_prompt[c], history[c], append_prompt[c], functions[c],
      pc[c], attempt_number[c], messages[c], prompt_log[c], dispatched[c],
      request[c], response[c], outcome[c], warned[c], result[c], raised[c],
      slept[c], wait[c], yields[c]>>

IndependentState ==
    \A c \in Calls :
        /\ dispatched[c] <= MaxAttempts
        /\ dispatched[c] = attempt_number[c]
        /\ (pc[c] = "raised" /\ raised[c].kind # "KeyboardInterrupt")
              => (dispatched[c] = MaxAttempts /\ raised[c].attempt = MaxAttempts)
        /\ pc[c] # "idle"
              => /\ request[c].messages =
                        construct_messages(prepend_prompt[c], history[c], append_prompt[c])
                 /\ request[c].functions = functions[c]
        /\ pc[c] = "returned" => result[c] = Body(c, response[c]).result

IndependentStep ==
    \A c \in Calls :
        (\E d \in Calls \ {c} : pc'[d] # pc[d]) => CallState(c)' = CallState(c)

\* C14: with two calls running concurrently in any interleaving, a step of
\* one call leaves everything of the other call as it is, and each call's
\* attempt count, dispatched messages and Result follow from its own
\* arguments and replies; the 20-attempt bound holds per call.
IndependentCalls == []IndependentState /\ [][IndependentStep]_vars

IndependentCallsWitness ==
    /\ Calls = {1, 2}
    /\ pc[1] = "raised"
    /\ raised[1] = Error("OpenAIError", MaxAttempts)
    /\ pc[2] = "returned"
    /\ dispatched[2] = 2
    /\ request[1].messages # request[2].messages

\* C15 as stated: the first wait is 4, each further wait doubles, capped at 10.
BackoffDoubles ==
    \A c \in Calls :
        slept[c] >= 1 => wait[c] = Min(4 * 2 ^ (slept[c] - 1), 10)

\* C15: the wait after the k-th failed attempt is 2^(k-1) time units raised
\* to at least 4 and capped at 10, that is 4, 4, 4, 8 and then 10; every wait
\* lies in [4, 10] and the waits never decrease.
BackoffSchedule ==
    \A c \in Calls :
        /\ slept[c] = 0 => wait[c] = 0
        /\ slept[c] \in 1..3 => wait[c] = 4
        /\ slept[c] = 4 => wait[c] = 8
        /\ slept[c] >= 5 => wait[c] = 10

BackoffScheduleWitness ==
    \E c \in Calls :
        /\ pc[c] = "sleeping"
        /\ slept[c] = 5
        /\ wait[c] = 10

\* C16: a reply without function call gives a Result whose content is the
\* reply's text, with or without functions supplied, and every Result, text
\* or function call, carries the reply's prompt, completion and total token
\* counters as send_tokens, recv_tokens and total_tokens.
TextPassThrough ==
    \A c \in Calls :
        pc[c] = "returned"
            => /\ result[c].send_tokens = response[c].usage.prompt_tokens
               /\ result[c].recv_tokens = response[c].usage.completion_tokens
               /\ result[c].total_tokens = response[c].usage.total_tokens
               /\ ~response[c].function_call
                    => /\ result[c].content = response[c].content
                       /\ result[c].function_name = EmptyStr

TextPassThroughWitness ==
    \E c \in Calls :
        /\ pc[c] = "returned"
        /\ functions[c] # <<>>
        /\ ~response[c].function_call
        /\ result[c].content = "hello"
        /\ result[c].send_tokens = 5
        /\ result[c].recv_tokens = 3
        /\ result[c].total_tokens = 8

\* C17: a call has at most one request outstanding: a dispatch is made either
\* as the first of the call or from the backoff wait that followed the
\* retryable failure of the previous attempt, and it is attempt k+1.
SequentialRetries ==
    [][\A c \in Calls :
          dispatched'[c] # dispatched[c]
              => /\ dispatched'[c] = dispatched[c] + 1
                 /\ pc'[c] = "awaiting"
                 /\ response'[c] = NoReply
                 /\ \/ pc[c] = "idle" /\ dispatched[c] = 0
                    \/ /\ pc[c] = "sleeping"
                       /\ response[c] # NoReply
                       /\ outcome[c].kind \in ExceptionKinds
                       /\ outcome[c].attempt = dispatched[c]
                       /\ slept[c] = dispatched[c]]_vars

SequentialRetriesWitness ==
    \E c \in Calls :
        /\ pc[c] = "awaiting"
        /\ dispatched[c] = 4
        /\ slept[c] = 3
        /\ outcome[c].attempt = 3

RequestArgumentFields ==
    {"model", "max_tokens", "temperature", "top_p", "n", "stop",
     "presence_penalty", "frequency_penalty"}

\* C18: every dispatch carries the assembled messages and all request
\* argument fields, and the functions field iff the functions list is
\* non-empty; with an empty functions list the Result is always a text result.
RequestContent ==
    \A c \in Calls :
        /\ pc[c] # "idle"
              => /\ request[c].messages = messages[c]
                 /\ DOMAIN request[c].args = RequestArgumentFields
                 /\ request[c].has_functions <=> (functions[c] # <<>>)
                 /\ request[c].has_functions => request[c].functions = functions[c]
        /\ (pc[c] = "returned" /\ functions[c] = <<>>)
              => /\ result[c].function_name = EmptyStr
                 /\ result[c].function_arguments = NoneValue
                 /\ result[c].content = response[c].content

RequestContentWitness ==
    \E c \in Calls :
        /\ pc[c] = "returned"
        /\ functions[c] = <<>>
        /\ response[c].function_call
        /\ ~request[c].has_functions
        /\ result[c].content = "hello"

ReturnedState ==
    \A c \in Calls :
        /\ pc[c] = "returned"
              => /\ dispatched[c] = slept[c] + 1
                 /\ Len(prompt_log[c]) = dispatched[c]
                 /\ response[c].raises = "none"
                 /\ outcome[c] = NoError
        /\ (/\ pc[c] # "awaiting"
            /\ response[c] # NoReply
            /\ response[c].raises = "none"
            /\ ~response[c].function_call)
              => (pc[c] = "returned" /\ result[c].content = response[c].content)

ReturnedStep ==
    \A c \in Calls : pc[c] = "returned" => CallState(c)' = CallState(c)

\* C19: as soon as an attempt produces a Result the call returns it and does
\* nothing more: no dispatch, log emission or wait follows, and the number of
\* dispatches is the index of the first successful attempt.
SuccessStops == []ReturnedState /\ [][ReturnedStep]_vars

SuccessStopsWitness ==
    \E c \in Calls :
        /\ pc[c] = "returned"
        /\ dispatched[c] = 3
        /\ slept[c] = 2
        /\ result[c].content = "hello"

StableState ==
    \A c \in Calls :
        /\ Len(prompt_log[c]) = dispatched[c]
        /\ \A i \in 1..Len(prompt_log[c]) : prompt_log[c][i] = prompt_log[c][1]
        /\ pc[c] # "idle"
              => /\ request[c].messages = prompt_log[c][Len(prompt_log[c])]
                 /\ request[c].messages = prompt_log[c][1]

StableStep ==
    \A c \in Calls :
        /\ history'[c] = history[c]
        /\ functions'[c] = functions[c]
        /\ Len(prompt_log'[c]) # Len(prompt_log[c])
              => /\ dispatched'[c] = dispatched[c] + 1
                 /\ request'[c].messages = prompt_log'[c][Len(prompt_log'[c])]

\* C20: no attempt modifies the caller's history or functions, so every
\* attempt logs and dispatches the message sequence of the first attempt, and
\* every log emission comes with the dispatch of the same messages.
StableRequest == []StableState /\ [][StableStep]_vars

StableRequestWitness ==
    \E c \in Calls :
        /\ dispatched[c] = 3
        /\ Len(history[c]) = 2
        /\ prepend_prompt[c] # ""
        /\ Len(prompt_log[c]) = 3
        /\ prompt_log[c][3] = prompt_log[c][1]

====
